---- MODULE Spec2Model ----
(***************************************************************************)
(* Model of parser/src/statements/variable.rs: parsing `const`/`let`/`var` *)
(* statements from a token reader, their positions and their printing.     *)
(*                                                                         *)
(* The token reader is a pull-based cursor.  The tokens the parser has     *)
(* looked at so far are kept in `tokens`; the reader hands out a further   *)
(* token (or the end of the stream) the first time the parser peeks or     *)
(* reads past them.  The name, type and expression sub-parsers are         *)
(* external: each accepts one token of the right kind.                     *)
(***************************************************************************)
EXTENDS Integers, Sequences, FiniteSets, TLC

VARIABLES
    spacing,       \* how the source text is spaced
    tokens,        \* the tokens of the stream handed out so far, in order
    eos,           \* TRUE once the reader has reported the end of the stream
    cursor,        \* number of tokens consumed (reader.next) so far
    pc,            \* position in VariableStatement::from_reader
    prev,          \* the step that ran last
    kind,          \* the VariableKeyword decoded at line 227
    declarations,  \* the `declarations` Vec of from_reader
    name,          \* local `name` of VariableDeclaration::from_reader
    type_reference,\* local `type_reference` of VariableDeclaration::from_reader
    result,        \* what from_reader returned
    settings,      \* ToStringSettings used by to_string_from_buffer
    buf            \* the buffer filled by to_string_from_buffer

vars == <<spacing, tokens, eos, cursor, pc, prev, kind, declarations, name,
          type_reference, result, settings, buf>>

(* Longest stream the reader hands out. *)
MaxTokens == 9

-----------------------------------------------------------------------------
(* Option<T> *)
None == [tag |-> "None"]
Some(x) == [tag |-> "Some", val |-> x]

(* Span and Span::union *)
Span(s, e) == [start |-> s, end |-> e]

Min(a, b) == IF a <= b THEN a ELSE b
Max(a, b) == IF a >= b THEN a ELSE b

Union(a, b) == Span(Min(a.start, b.start), Max(a.end, b.end))

-----------------------------------------------------------------------------
(* Text is a sequence of one-character strings. *)
Chars(s) ==
    CASE s = "const"  -> <<"c", "o", "n", "s", "t">>
      [] s = "let"    -> <<"l", "e", "t">>
      [] s = "var"    -> <<"v", "a", "r">>
      [] s = "const " -> <<"c", "o", "n", "s", "t", " ">>
      [] s = "let "   -> <<"l", "e", "t", " ">>
      [] s = "var "   -> <<"v", "a", "r", " ">>
      [] s = ": "     -> <<":", " ">>
      [] s = " = "    -> <<" ", "=", " ">>
      [] s = ""       -> <<>>
      [] OTHER        -> <<s>>

(* The lexemes of the model: kind and text. *)
Lexemes ==
    { [kind |-> "Const", text |-> "const"],
      [kind |-> "Let",   text |-> "let"],
      [kind |-> "Var",   text |-> "var"],
      [kind |-> "Ident", text |-> "x"],
      [kind |-> "Ident", text |-> "t"],
      [kind |-> "Number", text |-> "1"],
      [kind |-> "Colon", text |-> ":"],
      [kind |-> "Assign", text |-> "="],
      [kind |-> "Comma", text |-> ","],
      [kind |-> "SemiColon", text |-> ";"] }

Wordy(k) == k \in {"Const", "Let", "Var", "Ident", "Number"}

(* Token(kind, Span), with the source text of the token. *)
Token(lx, at) ==
    [kind |-> lx.kind, text |-> lx.text,
     pos |-> Span(at, at + Len(Chars(lx.text)))]

(* The ways the source text is spaced: "pretty" is the printer's pretty    *)
(* form, "compact" has no space but between two words, "wide" has one      *)
(* space between any two tokens.                                           *)
Spacings == {"pretty", "compact", "wide"}

Gap(sp, before, k) ==
    CASE sp = "pretty"  -> IF k \in {"Colon", "Comma", "SemiColon"} THEN 0 ELSE 1
      [] sp = "compact" -> IF Wordy(before) /\ Wordy(k) THEN 1 ELSE 0
      [] sp = "wide"    -> 1

(* The tokens that can follow `toks` in a stream: any lexeme, at the       *)
(* distance the spacing of the text gives.                                 *)
NextTokens(toks) ==
    IF toks = <<>>
    THEN { Token(lx, 0) : lx \in Lexemes }
    ELSE LET last == toks[Len(toks)] IN
         { Token(lx, last.pos.end + Gap(spacing, last.kind, lx.kind)) : lx \in Lexemes }

(* What the reader can show when the parser looks at the token after the   *)
(* cursor: the token already handed out, or a new one, or the end.         *)
Views ==
    IF Len(tokens) > cursor \/ eos
    THEN { [toks |-> tokens, eos |-> eos] }
    ELSE { [toks |-> tokens, eos |-> TRUE] }
         \cup (IF Len(tokens) < MaxTokens
               THEN { [toks |-> Append(tokens, t), eos |-> FALSE] : t \in NextTokens(tokens) }
               ELSE {})

(* reader.peek() / the token reader.next() returns *)
Peek(v) == IF Len(v.toks) > cursor THEN Some(v.toks[cursor + 1]) ELSE None

PeekIs(v, k) == Peek(v).tag = "Some" /\ Peek(v).val.kind = k

-----------------------------------------------------------------------------
(* Errors *)
LexingError == [kind |-> "LexingError"]

UnexpectedToken(expected, tok) ==
    [kind |-> "UnexpectedToken", expected |-> expected, found |-> tok.kind,
     position |-> tok.pos]

SubParserError(parser, v) ==
    [kind |-> "SubParserError", parser |-> parser, at |-> Peek(v)]

Pending == [tag |-> "Pending"]
Ok(stmt) == [tag |-> "Ok", stmt |-> stmt]
Err(e) == [tag |-> "Err", error |-> e]
Panic == [tag |-> "Panic"]

(* An AST leaf made of one token: its text and its position. *)
Leaf(tok) == [text |-> tok.text, pos |-> tok.pos]

-----------------------------------------------------------------------------
Init ==
    /\ spacing \in Spacings
    /\ tokens = <<>>
    /\ eos = FALSE
    /\ cursor = 0
    /\ pc = "start"
    /\ prev = "none"
    /\ kind = None
    /\ declarations = <<>>
    /\ name = None
    /\ type_reference = None
    /\ result = Pending
    /\ settings = None
    /\ buf = <<>>

(* The statement from_reader returns, lines 242-250 and 264 *)
Statement ==
    [variant |-> CASE kind.val.variant = "Const" -> "ConstDeclaration"
                   [] kind.val.variant = "Let"   -> "LetDeclaration"
                   [] kind.val.variant = "Var"   -> "VarDeclaration",
     keyword |-> kind.val.pos,
     declarations |-> declarations]

FailKeepsParsed(v, e, consumed) ==
    /\ UNCHANGED spacing
    /\ tokens' = v.toks
    /\ eos' = v.eos
    /\ cursor' = cursor + consumed
    /\ pc' = "done"
    /\ result' = IF declarations # <<>> THEN Ok(Statement) ELSE Err(e)
    /\ UNCHANGED <<kind, declarations, name, type_reference, settings, buf>>

(* `return Err(e)` / `?` *)
Fail(v, e, consumed) ==
    /\ UNCHANGED spacing
    /\ tokens' = v.toks
    /\ eos' = v.eos
    /\ cursor' = cursor + consumed
    /\ pc' = "done"
    /\ result' = Err(e)
    /\ UNCHANGED <<kind, declarations, name, type_reference, settings, buf>>

(* Move on without failing: the reader state of view v, `consumed` more    *)
(* tokens consumed, and the next step.                                     *)
Advance(v, consumed, step) ==
    /\ UNCHANGED spacing
    /\ tokens' = v.toks
    /\ eos' = v.eos
    /\ cursor' = cursor + consumed
    /\ pc' = step
    /\ UNCHANGED <<kind, result, settings, buf>>

(* A sub-parser that fails may or may not have consumed the token it       *)
(* rejects.                                                                *)
SubParserFail(v, parser) ==
    \E consumed \in (IF Peek(v).tag = "Some" THEN {0, 1} ELSE {0}) :
        Fail(v, SubParserError(parser, v), consumed)

(* VariableKeyword::from_reader(token) *)
VariableKeywordFromReader(tok) ==
    IF tok.kind \in {"Const", "Let", "Var"}
    THEN [tag |-> "Ok", val |-> [variant |-> tok.kind, pos |-> tok.pos]]
    ELSE Err(UnexpectedToken({"Const", "Let", "Var"}, tok))

(* line 227: reader.next().ok_or_else(parse_lexing_error)?, then the keyword *)
ReadKeyword ==
    /\ pc = "start"
    /\ prev' = "start"
    /\ \E v \in Views :
        IF Peek(v).tag = "None"
        THEN Fail(v, LexingError, 0)
        ELSE LET r == VariableKeywordFromReader(Peek(v).val) IN
             IF r.tag = "Err"
             THEN Fail(v, r.error, 1)
             ELSE /\ tokens' = v.toks
                  /\ eos' = v.eos
                  /\ cursor' = cursor + 1
                  /\ kind' = Some(r.val)
                  /\ pc' = "name"
                  /\ UNCHANGED <<spacing, declarations, name, type_reference,
                                 result, settings, buf>>

(* lines 125-127: the name of a declaration *)
ParseName ==
    /\ pc = "name"
    /\ prev' = "name"
    /\ \E v \in Views :
        IF PeekIs(v, "Ident")
        THEN /\ Advance(v, 1, "colon")
             /\ name' = Some(Leaf(Peek(v).val))
             /\ UNCHANGED <<declarations, type_reference>>
        ELSE SubParserFail(v, "name")

(* lines 128-129 and 132-134: the optional `:` *)
CheckColon ==
    /\ pc = "colon"
    /\ prev' = "colon"
    /\ \E v \in Views :
        IF PeekIs(v, "Colon")
        THEN /\ Advance(v, 1, "type")
             /\ UNCHANGED <<declarations, name, type_reference>>
        ELSE /\ Advance(v, 0, "assign")
             /\ type_reference' = None
             /\ UNCHANGED <<declarations, name>>

(* lines 130-131: TypeReference::from_reader *)
ParseTypeReference ==
    /\ pc = "type"
    /\ prev' = "type"
    /\ \E v \in Views :
        IF PeekIs(v, "Ident")
        THEN /\ Advance(v, 1, "assign")
             /\ type_reference' = Some(Leaf(Peek(v).val))
             /\ UNCHANGED <<declarations, name>>
        ELSE SubParserFail(v, "type")

IsConst == kind.tag = "Some" /\ kind.val.variant = "Const"

PushDeclarationOverwrites(decls, d) == <<d>>

(* declarations.push(value), lines 235 and 257 *)
PushDeclaration(decls, d) == Append(decls, d)

(* line 136 and the push of the finished declaration *)
FinishDeclaration(expression) ==
    /\ declarations' = PushDeclaration(declarations,
            [name |-> name.val, type_reference |-> type_reference,
             expression |-> expression])
    /\ UNCHANGED <<name, type_reference>>

OptionalCheckAssignConsumes ==
    /\ pc = "assign"
    /\ ~IsConst
    /\ prev' = "assign"
    /\ \E v \in Views :
        IF PeekIs(v, "Assign")
        THEN /\ Advance(v, 1, "expression")
             /\ UNCHANGED <<declarations, name, type_reference>>
        ELSE /\ Advance(v, IF Peek(v).tag = "Some" THEN 1 ELSE 0, "comma")
             /\ FinishDeclaration(None)

(* <Option<Expression>>::decl_from_reader, lines 40-41 and 44-46 *)
OptionalCheckAssign ==
    /\ pc = "assign"
    /\ ~IsConst
    /\ prev' = "assign"
    /\ \E v \in Views :
        IF PeekIs(v, "Assign")
        THEN /\ Advance(v, 1, "expression")
             /\ UNCHANGED <<declarations, name, type_reference>>
        ELSE /\ Advance(v, 0, "comma")
             /\ FinishDeclaration(None)

RequiredExpectAssignUnchecked ==
    /\ pc = "assign"
    /\ IsConst
    /\ prev' = "assign"
    /\ \E v \in Views :
        IF Peek(v).tag = "None"
        THEN Fail(v, LexingError, 0)
        ELSE /\ Advance(v, 1, "expression")
             /\ UNCHANGED <<declarations, name, type_reference>>

(* <Expression>::decl_from_reader, line 76: reader.expect_next(Assign)?.   *)
(* A rejected token may or may not have been consumed by expect_next.      *)
RequiredExpectAssign ==
    /\ pc = "assign"
    /\ IsConst
    /\ prev' = "assign"
    /\ \E v \in Views :
        IF Peek(v).tag = "None"
        THEN Fail(v, LexingError, 0)
        ELSE IF PeekIs(v, "Assign")
        THEN /\ Advance(v, 1, "expression")
             /\ UNCHANGED <<declarations, name, type_reference>>
        ELSE \E consumed \in {0, 1} :
                Fail(v, UnexpectedToken({"Assign"}, Peek(v).val), consumed)

(* Expression::from_reader, lines 42-43 and 77 *)
ParseExpression ==
    /\ pc = "expression"
    /\ prev' = "expression"
    /\ \E v \in Views :
        IF PeekIs(v, "Number") \/ PeekIs(v, "Ident")
        THEN /\ Advance(v, 1, "comma")
             /\ FinishDeclaration(IF IsConst THEN Leaf(Peek(v).val)
                                  ELSE Some(Leaf(Peek(v).val)))
        ELSE SubParserFail(v, "expression")

Return(v, res) ==
    /\ UNCHANGED spacing
    /\ tokens' = v.toks
    /\ eos' = v.eos
    /\ pc' = "done"
    /\ result' = res
    /\ UNCHANGED <<cursor, kind, declarations, name, type_reference,
                   settings, buf>>

Continue(v) ==
    /\ Advance(v, 1, "name")
    /\ UNCHANGED <<declarations, name, type_reference>>

LetVarCheckCommaRequiresComma ==
    /\ pc = "comma"
    /\ ~IsConst
    /\ prev' = "comma"
    /\ \E v \in Views :
        IF PeekIs(v, "Comma") THEN Continue(v)
        ELSE IF Peek(v).tag = "Some" THEN Fail(v, UnexpectedToken({"Comma"}, Peek(v).val), 0)
        ELSE Return(v, Ok(Statement))

(* lines 236-240: let/var, matches!(reader.peek(), Some(Token(Comma, _))) *)
LetVarCheckComma ==
    /\ pc = "comma"
    /\ ~IsConst
    /\ prev' = "comma"
    /\ \E v \in Views :
        IF PeekIs(v, "Comma") THEN Continue(v) ELSE Return(v, Ok(Statement))

(* lines 258-262: const, matches!(reader.peek().unwrap().0, Comma) *)
ConstCheckComma ==
    /\ pc = "comma"
    /\ IsConst
    /\ prev' = "comma"
    /\ \E v \in Views :
        IF Peek(v).tag = "None" THEN Return(v, Panic)
        ELSE IF PeekIs(v, "Comma") THEN Continue(v)
        ELSE Return(v, Ok(Statement))

-----------------------------------------------------------------------------
(* Positions *)

(* <Option<Expression>>::get_decl_position, lines 61-63 *)
OptionalGetDeclPosition(expression) ==
    IF expression.tag = "Some" THEN Some(expression.val.pos) ELSE None

(* <Expression>::get_decl_position, lines 90-92 *)
RequiredGetDeclPosition(expression) == Some(expression.pos)

GetDeclPosition(required, expression) ==
    IF required THEN RequiredGetDeclPosition(expression)
    ELSE OptionalGetDeclPosition(expression)

DeclarationGetPositionTypeFirst(required, d) ==
    IF d.type_reference.tag = "Some"
    THEN Union(d.name.pos, d.type_reference.val.pos)
    ELSE IF GetDeclPosition(required, d.expression).tag = "Some"
    THEN Union(d.name.pos, GetDeclPosition(required, d.expression).val)
    ELSE d.name.pos

(* VariableDeclaration::get_position, lines 109-118 *)
DeclarationGetPosition(required, d) ==
    LET name_position == d.name.pos
        expr_pos == GetDeclPosition(required, d.expression)
    IN  IF expr_pos.tag = "Some"
        THEN Union(name_position, expr_pos.val)
        ELSE IF d.type_reference.tag = "Some"
        THEN Union(name_position, d.type_reference.val.pos)
        ELSE name_position

IsRequired(stmt) == stmt.variant = "ConstDeclaration"

StatementGetPositionFirst(stmt) ==
    Union(stmt.keyword, DeclarationGetPosition(IsRequired(stmt), stmt.declarations[1]))

(* VariableStatement::get_position, lines 304-316 *)
StatementGetPosition(stmt) ==
    Union(stmt.keyword,
          DeclarationGetPosition(IsRequired(stmt),
                                 stmt.declarations[Len(stmt.declarations)]))

-----------------------------------------------------------------------------
(* Printing *)

(* <Option<Expression>>::decl_to_string_from_buffer, lines 49-59 *)
OptionalDeclToString(expression, st) ==
    IF expression.tag = "Some"
    THEN Chars(IF st.pretty THEN " = " ELSE "=") \o Chars(expression.val.text)
    ELSE <<>>

(* <Expression>::decl_to_string_from_buffer, lines 80-88 *)
RequiredDeclToString(expression, st) ==
    Chars(IF st.pretty THEN " = " ELSE "=") \o Chars(expression.text)

(* VariableDeclaration::to_string_from_buffer, lines 139-151 *)
DeclarationToString(required, d, st) ==
    Chars(d.name.text)
    \o (IF st.include_types /\ d.type_reference.tag = "Some"
        THEN Chars(": ") \o Chars(d.type_reference.val.text)
        ELSE <<>>)
    \o (IF required THEN RequiredDeclToString(d.expression, st)
        ELSE OptionalDeclToString(d.expression, st))

(* settings.0.add_gap(buf) *)
AddGap(st) == IF st.pretty THEN <<" ">> ELSE <<>>

(* declarations_to_string, lines 275-288 *)
RECURSIVE DeclarationsToString(_, _, _)
DeclarationsToString(required, decls, st) ==
    IF decls = <<>> THEN <<>>
    ELSE DeclarationToString(required, Head(decls), st)
         \o (IF Len(decls) > 1 THEN <<",">> \o AddGap(st) ELSE <<>>)
         \o DeclarationsToString(required, Tail(decls), st)

(* VariableStatement::to_string_from_buffer, lines 290-301 *)
StatementToString(stmt, st) ==
    Chars(CASE stmt.variant = "LetDeclaration"   -> "let "
            [] stmt.variant = "VarDeclaration"   -> "var "
            [] stmt.variant = "ConstDeclaration" -> "const ")
    \o DeclarationsToString(IsRequired(stmt), stmt.declarations, st)

(* The caller prints the statement it got, under some settings. *)
PrintStatement ==
    /\ pc = "done"
    /\ result.tag = "Ok"
    /\ prev' = "done"
    /\ \E pretty \in BOOLEAN, include_types \in BOOLEAN :
        LET st == [pretty |-> pretty, include_types |-> include_types] IN
        /\ settings' = Some(st)
        /\ buf' = StatementToString(result.stmt, st)
    /\ pc' = "printed"
    /\ UNCHANGED <<spacing, tokens, eos, cursor, kind, declarations, name,
                   type_reference, result>>

Next ==
    \/ ReadKeyword
    \/ ParseName
    \/ CheckColon
    \/ ParseTypeReference
    \/ OptionalCheckAssign
    \/ RequiredExpectAssign
    \/ ParseExpression
    \/ LetVarCheckComma
    \/ ConstCheckComma
    \/ PrintStatement

Spec == Init /\ [][Next]_vars

-----------------------------------------------------------------------------
(* The source text and the grammar, stated apart from the parser. *)

Consumed == SubSeq(tokens, 1, cursor)

KindsOf(toks) == [i \in 1..Len(toks) |-> toks[i].kind]

CountKind(toks, k) == Cardinality({ i \in 1..Len(toks) : toks[i].kind = k })

CountChar(text, c) == Cardinality({ i \in 1..Len(text) : text[i] = c })

(* The token the parser looks at in a step from a state with this cursor. *)
Looked == IF Len(tokens') > cursor THEN Some(tokens'[cursor + 1]) ELSE None

Spaces(n) == [i \in 1..n |-> " "]

RECURSIVE Render(_, _)
Render(toks, at) ==
    IF toks = <<>> THEN <<>>
    ELSE Spaces(Head(toks).pos.start - at) \o Chars(Head(toks).text)
         \o Render(Tail(toks), Head(toks).pos.end)

SourceText == Render(tokens, 0)

(* name[: type][ = init] (, name[: type][ = init])* over token kinds *)
RECURSIVE IsDeclarationList(_, _)
IsDeclarationList(ks, required) ==
    /\ Len(ks) >= 1
    /\ ks[1] = "Ident"
    /\ LET hasType == Len(ks) >= 3 /\ ks[2] = "Colon" /\ ks[3] = "Ident"
           n == IF hasType THEN 3 ELSE 1
           hasInit == /\ Len(ks) >= n + 2
                      /\ ks[n + 1] = "Assign"
                      /\ ks[n + 2] \in {"Number", "Ident"}
           m == IF hasInit THEN n + 2 ELSE n
           rest == SubSeq(ks, m + 1, Len(ks))
       IN  /\ required => hasInit
           /\ \/ rest = <<>>
              \/ /\ rest[1] = "Comma"
                 /\ IsDeclarationList(Tail(rest), required)

IsStatement(toks) ==
    /\ Len(toks) >= 2
    /\ toks[1].kind \in {"Const", "Let", "Var"}
    /\ IsDeclarationList(Tail(KindsOf(toks)), toks[1].kind = "Const")

(* keyword, one space, declarations `name[: type][ = init]` joined by `, ` *)
IsCanonical(toks) ==
    /\ toks # <<>>
    /\ toks[1].pos.start = 0
    /\ \A i \in 2..Len(toks) :
          toks[i].pos.start - toks[i - 1].pos.end =
              (IF toks[i].kind \in {"Colon", "Comma"} THEN 0 ELSE 1)

(* p covers exactly a and b *)
IsUnionOf(p, a, b) ==
    /\ p.start <= a.start /\ p.start <= b.start
    /\ p.end >= a.end /\ p.end >= b.end
    /\ p.start \in {a.start, b.start}
    /\ p.end \in {a.end, b.end}

Contains(p, a) == p.start <= a.start /\ a.end <= p.end

IsOk == result.tag = "Ok"
IsErr == result.tag = "Err"

-----------------------------------------------------------------------------
(* C1: a `const` declaration whose name (and `: type`) is followed by a    *)
(* token other than `=` makes the parse fail with an unexpected-token      *)
(* error expecting `=` and naming that token; and every declaration of a   *)
(* returned `const` statement has an initializer that follows a `=`.       *)
C1_ConstRequiresInitializer ==
    [][ /\ (pc = "assign" /\ IsConst /\ Looked.tag = "Some"
                /\ Looked.val.kind # "Assign")
            => /\ result'.tag = "Err"
               /\ result'.error = [kind |-> "UnexpectedToken",
                                   expected |-> {"Assign"},
                                   found |-> Looked.val.kind,
                                   position |-> Looked.val.pos]
        /\ (result'.tag = "Ok" /\ result'.stmt.variant = "ConstDeclaration")
            => \A i \in 1..Len(result'.stmt.declarations) :
                 \E j \in 2..cursor' :
                    /\ tokens'[j - 1].kind = "Assign"
                    /\ result'.stmt.declarations[i].expression.pos = tokens'[j].pos
      ]_vars

C1_Witness ==
    /\ pc = "done" /\ prev = "assign" /\ IsConst /\ IsErr
    /\ result.error.kind = "UnexpectedToken"
    /\ Len(declarations) = 1

(* C2: when the stream ends right after the last declaration, the comma    *)
(* check stops normally and the statement is returned, for const as for    *)
(* let/var.                                                                *)
C2_EndOfStreamStopsNormally ==
    (pc = "done" /\ prev = "comma" /\ Len(tokens) = cursor)
        => /\ IsOk
           /\ result.stmt.declarations = declarations

(* C3: the comma check is made with at least one declaration pushed, and a *)
(* returned statement has one declaration more than commas consumed.       *)
C3_DeclarationsNonEmpty ==
    /\ pc = "comma" => /\ Len(declarations) >= 1
                       /\ Len(declarations) = 1 + CountKind(Consumed, "Comma")
    /\ IsOk => /\ Len(result.stmt.declarations) >= 1
               /\ Len(result.stmt.declarations) = 1 + CountKind(Consumed, "Comma")

C3_Witness ==
    /\ IsOk
    /\ Len(result.stmt.declarations) = 3
    /\ CountKind(Consumed, "Comma") = 2

(* C4: for let/var the initializer is present iff the token after the name *)
(* (and type) is `=`; on any other token or at the end of the stream the   *)
(* declaration is finished without initializer, without error and without  *)
(* consuming anything; printed, an absent initializer gives no `=`.        *)
C4_OptionalInitializer ==
    [][ /\ (pc = "assign" /\ ~IsConst)
            => IF Looked.tag = "Some" /\ Looked.val.kind = "Assign"
               THEN /\ cursor' = cursor + 1
                    /\ pc' = "expression"
                    /\ declarations' = declarations
               ELSE /\ cursor' = cursor
                    /\ pc' = "comma"
                    /\ result' = Pending
                    /\ Len(declarations') = Len(declarations) + 1
                    /\ declarations'[Len(declarations')].expression = None
        /\ (pc = "expression" /\ ~IsConst /\ pc' = "comma")
            => declarations'[Len(declarations')].expression.tag = "Some"
        /\ (pc' = "printed" /\ ~IsConst)
            => CountChar(buf', "=") =
                 Cardinality({ i \in 1..Len(declarations) :
                                 declarations[i].expression.tag = "Some" })
      ]_vars

C4_Witness ==
    /\ pc = "printed"
    /\ ~IsConst
    /\ Len(tokens) > cursor
    /\ declarations[Len(declarations)].expression = None
    /\ CountChar(buf, "=") = 0

(* C5: a well-formed statement text in canonical pretty form parses, and   *)
(* printing the result pretty and with types gives the text back.          *)
C5_RoundTrip ==
    (pc \in {"done", "printed"} /\ eos /\ IsStatement(tokens) /\ IsCanonical(tokens))
        => /\ IsOk
           /\ (pc = "printed" /\ settings.val.pretty /\ settings.val.include_types)
                => buf = SourceText

(* C6: the position of a returned statement runs from the start of the     *)
(* keyword to the end of the last token of the statement.                  *)
C6_StatementPosition ==
    IsOk => /\ StatementGetPosition(result.stmt)
                = Span(tokens[1].pos.start, tokens[cursor].pos.end)
            /\ IsUnionOf(StatementGetPosition(result.stmt), tokens[1].pos,
                         DeclarationGetPosition(IsConst,
                                                declarations[Len(declarations)]))

C6_Witness ==
    /\ IsOk
    /\ result.stmt.variant = "VarDeclaration"
    /\ Len(declarations) = 3
    /\ declarations[1].expression = None
    /\ declarations[3].expression.tag = "Some"

(* C7: when the parse fails on a token, that token is still the next one   *)
(* of the reader.                                                          *)
C7_ErrorLocality ==
    (IsErr /\ result.error.kind = "UnexpectedToken")
        => /\ Len(tokens) > cursor
           /\ tokens[cursor + 1].pos = result.error.position

(* C8 as claimed: a declaration followed by the start of another one       *)
(* without a comma makes the parse fail with an unexpected-token error.    *)
C8_MissingCommaFails ==
    (pc = "done" /\ prev = "comma" /\ Len(tokens) > cursor
        /\ tokens[cursor + 1].kind = "Ident")
        => IsErr /\ result.error.kind = "UnexpectedToken"

(* C8 amended: a declaration followed by a token that is not a comma ends  *)
(* the statement: the declarations parsed so far are returned and the      *)
(* token is left in the reader.                                            *)
C8_MissingCommaStops ==
    (pc = "done" /\ prev = "comma" /\ Len(tokens) > cursor)
        => /\ tokens[cursor + 1].kind # "Comma"
           /\ IsOk
           /\ result.stmt.declarations = declarations
           /\ IsStatement(Consumed)

C8_Witness ==
    /\ pc = "done" /\ prev = "comma" /\ IsOk
    /\ Len(tokens) > cursor
    /\ tokens[cursor + 1].kind = "Ident"

(* C9: the position of a declaration covers exactly its name and its       *)
(* initializer when it has one, else its name and its type annotation when *)
(* it has one, else it is its name's; it always contains the name's.       *)
C9_DeclarationPosition ==
    \A i \in 1..Len(declarations) :
        LET d == declarations[i]
            p == DeclarationGetPosition(IsConst, d)
            init == IF IsConst THEN Some(d.expression) ELSE d.expression
        IN  /\ Contains(p, d.name.pos)
            /\ IF init.tag = "Some" THEN IsUnionOf(p, d.name.pos, init.val.pos)
               ELSE IF d.type_reference.tag = "Some"
               THEN IsUnionOf(p, d.name.pos, d.type_reference.val.pos)
               ELSE p = d.name.pos

C9_Witness ==
    /\ Len(declarations) = 2
    /\ ~IsConst
    /\ declarations[1].type_reference.tag = "Some"
    /\ declarations[1].expression.tag = "Some"
    /\ declarations[2].type_reference = None
    /\ declarations[2].expression = None

(* C10: a step that finds the stream empty or a token it cannot accept     *)
(* ends the parse with an error and no statement (an end-of-stream error   *)
(* at the keyword); after an error nothing more happens; and a returned    *)
(* statement has consumed exactly the tokens of a whole statement.         *)
C10_FailFast ==
    [][ /\ IsErr => FALSE
        /\ (pc = "start" /\ Looked.tag = "None") => result' = Err(LexingError)
        /\ LET accepted ==
                 CASE pc = "start" -> {"Const", "Let", "Var"}
                   [] pc \in {"name", "type"} -> {"Ident"}
                   [] pc = "expression" -> {"Number", "Ident"}
                   [] pc = "assign" /\ IsConst -> {"Assign"}
                   [] OTHER -> {}
           IN  (accepted # {} /\ (Looked.tag = "None" \/ Looked.val.kind \notin accepted))
                  => /\ result'.tag = "Err"
                     /\ pc' = "done"
                     /\ declarations' = declarations
        /\ result'.tag = "Ok" => IsStatement(SubSeq(tokens', 1, cursor'))
      ]_vars

C10_Witness ==
    /\ IsErr
    /\ pc = "done"
    /\ result.error.kind = "SubParserError"
    /\ Len(declarations) >= 1
====
